---- MODULE Spec2Model ----
(***************************************************************************)
(* Reclaim.ai MCP server: the request/response normalization layer.        *)
(*                                                                         *)
(* One tool invocation travels                                             *)
(*   CallTool dispatcher -> tool handler (argument validation)             *)
(*     -> API client operation (payload mapping, local preconditions)      *)
(*     -> one upstream HTTP request -> response or failure                 *)
(*     -> handleApiError -> wrapApiCall -> ToolResult.                     *)
(*                                                                         *)
(* JavaScript values are records tagged by field t.  Strings that the code *)
(* builds by concatenation are sequences of string tokens, so that         *)
(* "the message contains X" is "X is one of the tokens".                   *)
(***************************************************************************)
EXTENDS Integers, Sequences, FiniteSets, TLC

\* ---------------------------------------------------------------- bounds
MaxTasks == 3          \* longest task list the upstream returns
MaxTaskId == 2         \* task ids are 1..MaxTaskId
MaxNow == 2            \* the clock reads 0..MaxNow ticks at invocation
MaxDays == 2           \* numeric deadlines are -1..MaxDays days
MaxRequests == 2       \* upstream answers the first MaxRequests requests of a call
MaxCalls == 4          \* the mock API client serves at most MaxCalls calls
MaxInvocations == 2    \* tool invocations that run side by side

\* ---------------------------------------------------------------- values
Undefined == [t |-> "undefined"]
Null == [t |-> "null"]
Num(n) == [t |-> "num", n |-> n]
\* a string: fmt "text" (free text), "empty" (""), "iso" (ISO-8601 UTC
\* date-time of instant a), "date" (YYYY-MM-DD with month a, day b)
Str(fmt, a, b) == [t |-> "str", fmt |-> fmt, a |-> a, b |-> b]
Text == Str("text", 0, 0)
EmptyStr == Str("empty", 0, 0)
SuccessObject == [t |-> "success"]      \* the object { success: true }
StackObject == [t |-> "stack"]          \* the object { stack: error.stack }
ListOf(items) == [t |-> "list", items |-> items]
TaskValue(task) == [t |-> "task", task |-> task]
\* an error response body { title?, message?, detail? }; "" is an absent field
Body(title, message, detail) ==
  [t |-> "obj", title |-> title, message |-> message, detail |-> detail]
\* an object JSON.stringify cannot serialize (circular reference)
Circular == [t |-> "circular"]

\* ---------------------------------------------------------------- tasks
\* the deleted flag of a task as upstream sends it: true, false or no key
DeletedFlags == {"true", "false", "absent"}

\* the statuses of the tasks upstream returns here: one that is in neither
\* excluded class, COMPLETE, the two excluded ones, and no status key
UpstreamStatuses == {"NEW", "COMPLETE", "CANCELLED", "ARCHIVED", "absent"}

TaskRecords(id) ==
  [id : {id}, status : UpstreamStatuses, deleted : DeletedFlags]

\* task lists as upstream returns them: the i-th element carries id i
TaskLists ==
  UNION {{s \in [1..n -> UNION {TaskRecords(i) : i \in 1..MaxTasks}] :
            \A i \in 1..n : s[i].id = i} : n \in 0..MaxTasks}

\* the predicate of the filter callback: task && !task.deleted && ...
IsActiveDropComplete(task) ==
  /\ task.deleted # "true"
  /\ task.status \notin {"ARCHIVED", "CANCELLED", "COMPLETE"}

IsActiveKeepDeleted(task) ==
  /\ task.status # "ARCHIVED"
  /\ task.status # "CANCELLED"

IsActive(task) ==
  /\ task.deleted # "true"
  /\ task.status # "ARCHIVED"
  /\ task.status # "CANCELLED"

\* Array.prototype.filter: visit the elements in index order, keep those
\* the callback accepts
RECURSIVE ArrayFilter(_, _)
ArrayFilter(arr, i) ==
  IF i > Len(arr) THEN <<>>
  ELSE (IF IsActive(arr[i]) THEN <<arr[i]>> ELSE <<>>) \o ArrayFilter(arr, i + 1)

filterActiveTasksNoArrayCheck(tasks) ==
  IF tasks.t # "list" THEN <<tasks>> ELSE ArrayFilter(tasks.items, 1)

\* filterActiveTasks: a non-array argument gives []
filterActiveTasks(tasks) ==
  IF tasks.t # "list" THEN <<>> ELSE ArrayFilter(tasks.items, 1)

\* ---------------------------------------------------------------- dates
TicksPerDay == 2       \* clock resolution: ticks in one day

\* an instant is a number of ticks since 00:00 UTC, 1 January of the base
\* (non-leap) year; month 13 is January of the next year, month 0 is
\* December of the year before
MonthDays == <<31, 28, 31, 30, 31, 30, 31, 31, 30, 31, 30, 31>>

RECURSIVE DaysBeforeMonth(_)
DaysBeforeMonth(m) ==
  IF m < 1 THEN DaysBeforeMonth(m + 12) - 365
  ELSE IF m > 12 THEN DaysBeforeMonth(m - 12) + 365
  ELSE IF m = 1 THEN 0
  ELSE DaysBeforeMonth(m - 1) + MonthDays[m - 1]

\* Date.UTC(year, month - 1, day): day and month overflow roll over
DateUTC(month, day) == (DaysBeforeMonth(month) + day - 1) * TicksPerDay

\* Date.prototype.toISOString
toISOString(instant) == Str("iso", instant, 0)

NaN == [valid |-> FALSE, at |-> 0]
Instant(at) == [valid |-> TRUE, at |-> at]

\* new Date(string).getTime() on the Node.js runtime: an ISO date-time is
\* its instant; a date-only form is midnight UTC when month is 1..12 and
\* day is 1..31 (a day past the end of the month rolls over); anything
\* else is NaN
DateParse(s) ==
  IF s.fmt = "iso" THEN Instant(s.a)
  ELSE IF s.fmt = "date" /\ s.a \in 1..12 /\ s.b \in 1..31
    THEN Instant(DateUTC(s.a, s.b))
  ELSE NaN

Return(v) == [thrown |-> FALSE, v |-> v]
Throw(e) == [thrown |-> TRUE, v |-> e]

\* errors: t is the class; status "none" is an undefined status
Err(t, message, status, detail) ==
  [t |-> t, message |-> message, status |-> status, detail |-> detail]
PlainError(message) == Err("Error", message, "none", StackObject)

\* the largest time value a Date can hold (8.64e15 ms in the runtime); a
\* Date past it is invalid and its toISOString throws a RangeError
MaxInstant == 2000

\* a number of days that takes any clock reading past MaxInstant
HugeDays == MaxInstant \div TicksPerDay + 1

parseNumericDeadlineIntoPast(days, now) ==
  IF now + days * TicksPerDay > MaxInstant
    THEN Throw(PlainError(<<"Invalid time value">>))
    ELSE Return(toISOString(now + days * TicksPerDay))

\* parseNumericDeadline: setDate(getDate() + days) keeps the time of day
parseNumericDeadline(days, now) ==
  IF days <= 0 THEN Return(toISOString(now))
  ELSE IF now + days * TicksPerDay > MaxInstant
    THEN Throw(PlainError(<<"Invalid time value">>))
  ELSE Return(toISOString(now + days * TicksPerDay))

parseStringDeadline(dateStr) ==
  LET parsed == DateParse(dateStr) IN
  IF parsed.valid THEN Return(toISOString(parsed.at))
  ELSE IF dateStr.fmt = "date"      \* /^\d{4}-\d{2}-\d{2}$/
    THEN Return(toISOString(DateUTC(dateStr.a, dateStr.b)))
  ELSE Throw(PlainError(<<"Invalid date format: ", dateStr.fmt>>))

\* the try block of parseDeadline: returns for a number or a string, and
\* falls through (returns nothing) for any other input
TryParseDeadline(deadlineInput, now) ==
  IF deadlineInput.t = "num" THEN parseNumericDeadline(deadlineInput.n, now)
  ELSE IF deadlineInput.t = "str" THEN parseStringDeadline(deadlineInput)
  ELSE Return(Undefined)

parseDeadlineNoCatch(deadlineInput, now) ==
  LET r == TryParseDeadline(deadlineInput, now) IN
  IF r.v = Undefined THEN toISOString(now + TicksPerDay) ELSE r.v

\* parseDeadline: what the try block throws is caught; a throw and a fall
\* through both give the default, one day from now
parseDeadline(deadlineInput, now) ==
  LET default == toISOString(now + TicksPerDay)
      r == TryParseDeadline(deadlineInput, now)
  IN IF r.thrown \/ r.v = Undefined THEN default ELSE r.v

\* ---------------------------------------------------------------- errors
LongStrings ==
  {"a detail of 150 characters or more", "a message of 150 characters or more"}
BodyString == [t |-> "bodystr", s |-> "upstream said no"]

\* v is undefined or null; v is truthy (not undefined, null or "")
Nullish(v) == v.t \in {"undefined", "null"}
Truthy(v) == ~Nullish(v) /\ ~(v.t = "str" /\ v.fmt = "empty")

\* what an upstream request can fail with: an Axios error with a response
\* (status and body), an Axios error without one (network failure), an
\* Error thrown by the transport, or a thrown non-Error value
ErrorBodies ==
  {Undefined, BodyString} \cup
  {Body(ti, me, de) :
     ti \in {"", "Not Found"},
     me \in {"", "Task not found", "a message of 150 characters or more"},
     de \in {"", "no such task", "a detail of 150 characters or more"}}

AxiosErrors ==
  {Err("AxiosError", <<"axios message">>, st, bo) :
     st \in {"400", "404", "500"}, bo \in ErrorBodies}
    \cup {Err("AxiosError", <<"axios message">>, "none", Undefined)}

TransportErrors == {PlainError(<<"socket hang up">>)}

ThrownValues == {Err("value", <<>>, "none", v) : v \in {Undefined, Null, Text, Num(1)}}

extractAxiosErrorInfoPreferTitle(error) ==
  LET responseData == error.detail
      message ==
        IF ~Truthy(responseData) THEN error.message
        ELSE IF responseData.t = "obj" THEN
          IF responseData.message # "" THEN <<responseData.message>>
          ELSE IF responseData.title # "" THEN <<responseData.title>>
          ELSE error.message
        ELSE IF responseData.t = "bodystr" THEN <<responseData.s>>
        ELSE error.message
  IN [status |-> error.status,
      message |-> message,
      detail |-> IF Truthy(responseData) THEN responseData ELSE Undefined]

\* extractAxiosErrorInfo
extractAxiosErrorInfo(error) ==
  LET responseData == error.detail
      message ==
        IF ~Truthy(responseData) THEN error.message
        ELSE IF responseData.t = "obj" THEN
          IF responseData.message # "" /\ responseData.title # ""
            THEN <<responseData.title, ": ", responseData.message>>
          ELSE IF responseData.message # "" THEN <<responseData.message>>
          ELSE error.message
        ELSE IF responseData.t = "bodystr" THEN <<responseData.s>>
        ELSE error.message
  IN [status |-> error.status,
      message |-> message,
      detail |-> IF Truthy(responseData) THEN responseData ELSE Undefined]

\* the status, message and detail handleApiError takes from a caught value
ApiErrorInfo(error) ==
  IF error.t = "AxiosError" THEN extractAxiosErrorInfo(error)
  ELSE IF error.t \in {"Error", "ReclaimError"} THEN
    [status |-> "none", message |-> error.message, detail |-> StackObject]
  ELSE [status |-> "none",
        message |-> <<"An unexpected error occurred during API call.">>,
        detail |-> error.detail]

handleApiErrorNoStatus(error, context) ==
  LET info == ApiErrorInfo(error) IN
  Err("ReclaimError", <<context, ": ">> \o info.message, "none", info.detail)

\* handleApiError always throws a ReclaimError `${context}: ${message}`
handleApiError(error, context) ==
  LET info == ApiErrorInfo(error) IN
  Err("ReclaimError", <<context, ": ">> \o info.message, info.status, info.detail)

\* ---------------------------------------------------------------- result wrapper
\* a text block; its text is the JSON serialization of a value (k "json"),
\* String(value) (k "string"), a message built from tokens (k "message")
\* or one of the fixed status notes (k "note")
TextBlock(k, v, parts) == [type |-> "text", k |-> k, v |-> v, parts |-> parts]
ToolResult(isError, content) == [isError |-> isError, content |-> content]

IsObject(v) == v.t \in {"obj", "stack", "success", "task", "list", "circular"}

\* String(value) of a primitive
StringOf(v) ==
  IF v.t = "undefined" THEN "undefined"
  ELSE IF v.t = "null" THEN "null"
  ELSE IF v.t = "num" THEN "a number"
  ELSE IF v.t = "bodystr" THEN v.s
  ELSE "a string"

\* the text of JSON.stringify(v, null, 2) and of String(v): they differ for a
\* string, which only JSON puts in quotes
JSONText(v) == [quoted |-> v.t \in {"str", "bodystr"}, of |-> v]
StringText(v) == [quoted |-> FALSE, of |-> v]

\* the text of a block that carries a value
BlockText(block) ==
  IF block.k = "json" THEN JSONText(block.v) ELSE StringText(block.v)

formatSuccessResultNoSentinel(result) ==
  IF IsObject(result) /\ result.t # "circular"
    THEN Return(ToolResult(FALSE, <<TextBlock("json", result, <<>>)>>))
    ELSE Return(ToolResult(FALSE, <<TextBlock("string", result, <<>>)>>))

\* formatSuccessResult; JSON.stringify throws a TypeError on a circular
\* structure
formatSuccessResult(result) ==
  IF result.t = "undefined"
    THEN Return(ToolResult(FALSE, <<TextBlock("json", SuccessObject, <<>>)>>))
  ELSE IF IsObject(result) THEN
    IF result.t = "circular"
      THEN Throw(Err("Error", <<"Converting circular structure to JSON">>, "none", StackObject))
    ELSE Return(ToolResult(FALSE, <<TextBlock("json", result, <<>>)>>))
  ELSE Return(ToolResult(FALSE, <<TextBlock("string", result, <<>>)>>))

\* extractErrorInfo of utils.ts
extractErrorInfo(e) ==
  IF e.t = "ReclaimError" THEN
    [errorMessage |-> e.message, errorDetail |-> e.detail, errorCode |-> e.status]
  ELSE IF e.t \in {"Error", "ZodError", "AxiosError"} THEN
    [errorMessage |-> e.message, errorDetail |-> StackObject, errorCode |-> "none"]
  ELSE
    [errorMessage |-> <<"An unexpected non-Error value was thrown: ", StringOf(e.detail)>>,
     errorDetail |-> e.detail, errorCode |-> "none"]

\* extractDetailString; <<>> is undefined
extractDetailString(errorDetail, errorMessage) ==
  IF ~Truthy(errorDetail) THEN <<>>
  ELSE IF errorDetail.t = "obj" THEN
    IF errorDetail.detail # "" /\ errorDetail.detail \notin LongStrings
      THEN <<errorDetail.detail>>
    ELSE IF errorDetail.message # "" /\ <<errorDetail.message>> # errorMessage
      THEN <<errorDetail.message>>
    ELSE <<>>
  ELSE IF IsObject(errorDetail) THEN <<>>
  ELSE IF /\ errorDetail.t \in {"str", "bodystr"}
          /\ StringOf(errorDetail) \notin LongStrings
          /\ <<StringOf(errorDetail)>> # errorMessage
    THEN <<StringOf(errorDetail)>>
  ELSE <<>>

\* the catch block of wrapApiCall
formatErrorResult(e) ==
  LET info == extractErrorInfo(e)
      head == IF info.errorCode # "none"
                THEN <<"Error ", info.errorCode, ": ">> \o info.errorMessage
                ELSE <<"Error: ">> \o info.errorMessage
      title == IF info.errorDetail.t = "obj" /\ info.errorDetail.title # ""
                 THEN <<" - ", info.errorDetail.title>> ELSE <<>>
      detailString == extractDetailString(info.errorDetail, info.errorMessage)
      detail == IF detailString # <<>> THEN <<" (">> \o detailString \o <<")">> ELSE <<>>
  IN ToolResult(TRUE, <<TextBlock("message", Undefined, head \o title \o detail)>>)

\* a settled promise
Fulfilled(v) == [k |-> "fulfilled", v |-> v]
Rejected(e) == [k |-> "rejected", v |-> e]
NoOutcome == [k |-> "none", v |-> Undefined]

\* what a call did: returned a value or threw
Returned(v) == [k |-> "returned", v |-> v]
Thrown(e) == [k |-> "thrown", v |-> e]

\* wrapApiCall: await and formatSuccessResult are both inside the try
wrapApiCallNoCatch(promise) ==
  IF promise.k = "fulfilled" THEN
    LET r == formatSuccessResult(promise.v) IN
    IF r.thrown THEN Thrown(r.v) ELSE Returned(r.v)
  ELSE Thrown(promise.v)

wrapApiCall(promise) ==
  IF promise.k = "fulfilled" THEN
    LET r == formatSuccessResult(promise.v) IN
    IF r.thrown THEN Returned(formatErrorResult(r.v)) ELSE Returned(r.v)
  ELSE Returned(formatErrorResult(promise.v))

\* ---------------------------------------------------------------- objects
\* a JavaScript object is a function from its own keys to values
EmptyObject == [k \in {} |-> Undefined]
HasKey(o, k) == k \in DOMAIN o
SetKey(o, k, v) == [x \in DOMAIN o \cup {k} |-> IF x = k THEN v ELSE o[x]]
\* Object.fromEntries(Object.entries(o).filter(([, v]) => v !== undefined))
StripUndefined(o) == [x \in {y \in DOMAIN o : o[y].t # "undefined"} |-> o[x]]
\* !o.k : the key is absent or its value is undefined, null or ""
Falsy(o, k) == ~HasKey(o, k) \/ ~Truthy(o[k])
Defined(o, k) == HasKey(o, k) /\ o[k].t # "undefined"

\* ---------------------------------------------------------------- API client
ClientOps ==
  {"listTasks", "getTask", "createTask", "updateTask", "deleteTask",
   "markTaskComplete", "markTaskIncomplete", "addTimeToTask", "startTaskTimer",
   "stopTaskTimer", "logWorkForTask", "clearTaskExceptions", "prioritizeTask"}

\* the arguments of a client operation; unused ones are 0 / Undefined / {}
ClientArgs(taskId, data, minutes, end) ==
  [taskId |-> taskId, data |-> data, minutes |-> minutes, end |-> end]

\* an upstream request; op is the client function that issued it
Request(op, method, path, taskId, body, params) ==
  [op |-> op, method |-> method, path |-> path, taskId |-> taskId,
   body |-> body, params |-> params]

\* a client function either rejects before any request or issues one
Reject(e) == [k |-> "reject", error |-> e, req |-> Undefined]
Issue(req) == [k |-> "request", error |-> Undefined, req |-> req]

\* the deadline -> due mapping shared by createTask and updateTask.
\* Object.assign(apiPayload, cleanPayload) copies the other keys back over
\* themselves: the deadline key stays in apiPayload
MapDeadline(payload, now) ==
  IF Defined(payload, "deadline")
    THEN SetKey(payload, "due", parseDeadline(payload["deadline"], now))
    ELSE payload

MapSnooze(payload, now) ==
  IF Defined(payload, "snoozeUntil")
    THEN SetKey(payload, "snoozeUntil", parseDeadline(payload["snoozeUntil"], now))
    ELSE payload

\* the payload createTask posts
CreatePayload(taskData, now) ==
  LET withDue ==
        IF Defined(taskData, "deadline") THEN MapDeadline(taskData, now)
        ELSE IF Falsy(taskData, "due")
          THEN SetKey(taskData, "due", parseDeadline(Undefined, now))
        ELSE taskData
  IN StripUndefined(MapSnooze(withDue, now))

UpdatePayloadDefaultDue(taskData, now) == CreatePayload(taskData, now)

\* the payload updateTask patches
UpdatePayload(taskData, now) ==
  StripUndefined(MapSnooze(MapDeadline(taskData, now), now))

createTask(a, now) ==
  Issue(Request("createTask", "POST", "/tasks", 0, CreatePayload(a.data, now), EmptyObject))

updateTaskAlwaysPatch(a, now) ==
  Issue(Request("updateTask", "PATCH", "/tasks/{id}", a.taskId,
                UpdatePayload(a.data, now), EmptyObject))

\* updateTask: an empty payload is answered by getTask(taskId)
updateTask(a, now) ==
  LET apiPayload == UpdatePayload(a.data, now) IN
  IF DOMAIN apiPayload = {}
    THEN Issue(Request("getTask", "GET", "/tasks/{id}", a.taskId, Undefined, EmptyObject))
    ELSE Issue(Request("updateTask", "PATCH", "/tasks/{id}", a.taskId, apiPayload, EmptyObject))

addTimeToTaskNoGuard(a) ==
  Issue(Request("addTimeToTask", "POST", "/planner/add-time/task/{id}", a.taskId,
                Null, [minutes |-> Num(a.minutes)]))

addTimeToTask(a) ==
  IF a.minutes <= 0
    THEN Reject(PlainError(<<"Minutes must be ", "positive", " to add time.">>))
    ELSE Issue(Request("addTimeToTask", "POST", "/planner/add-time/task/{id}", a.taskId,
                       Null, [minutes |-> Num(a.minutes)]))

logWorkForTaskRawEnd(a, now) ==
  IF a.minutes <= 0
    THEN Reject(PlainError(<<"Minutes must be ", "positive", " to log work.">>))
    ELSE
      LET base == [minutes |-> Num(a.minutes)]
          params == IF Truthy(a.end) THEN SetKey(base, "end", a.end) ELSE base
      IN Issue(Request("logWorkForTask", "POST", "/planner/log-work/task/{id}", a.taskId,
                       Null, params))

\* logWorkForTask: parseDeadline never throws, and an ISO date-time is
\* never 10 characters long, so a truthy end is sent as parseDeadline(end)
logWorkForTask(a, now) ==
  IF a.minutes <= 0
    THEN Reject(PlainError(<<"Minutes must be ", "positive", " to log work.">>))
    ELSE
      LET base == [minutes |-> Num(a.minutes)]
          params == IF Truthy(a.end)
                      THEN SetKey(base, "end", parseDeadline(a.end, now))
                      ELSE base
      IN Issue(Request("logWorkForTask", "POST", "/planner/log-work/task/{id}", a.taskId,
                       Null, params))

PlannerPath(op) ==
  CASE op = "markTaskComplete" -> "/planner/done/task/{id}"
    [] op = "markTaskIncomplete" -> "/planner/unarchive/task/{id}"
    [] op = "startTaskTimer" -> "/planner/start/task/{id}"
    [] op = "stopTaskTimer" -> "/planner/stop/task/{id}"
    [] op = "clearTaskExceptions" -> "/planner/clear-exceptions/task/{id}"
    [] op = "prioritizeTask" -> "/planner/prioritize/task/{id}"

\* the part of a client function that runs before its first await
ClientStart(op, a, now) ==
  CASE op = "listTasks" ->
         Issue(Request("listTasks", "GET", "/tasks", 0, Undefined, EmptyObject))
    [] op = "getTask" ->
         Issue(Request("getTask", "GET", "/tasks/{id}", a.taskId, Undefined, EmptyObject))
    [] op = "createTask" -> createTask(a, now)
    [] op = "updateTask" -> updateTask(a, now)
    [] op = "deleteTask" ->
         Issue(Request("deleteTask", "DELETE", "/tasks/{id}", a.taskId, Undefined, EmptyObject))
    [] op = "addTimeToTask" -> addTimeToTask(a)
    [] op = "logWorkForTask" -> logWorkForTask(a, now)
    [] OTHER ->
         Issue(Request(op, "POST", PlannerPath(op), a.taskId, Undefined, EmptyObject))

\* an upstream reply: a 2xx response with a decoded body, or a failure
Ok(data) == [ok |-> TRUE, v |-> data]
Fail(error) == [ok |-> FALSE, v |-> error]

\* the part of a client function that runs after its await; req.op is the
\* function whose try/catch encloses the request
ClientFinish(req, reply) ==
  IF ~reply.ok THEN Rejected(handleApiError(reply.v, req.op))
  ELSE IF req.op = "listTasks"
    THEN Fulfilled(IF reply.v.t = "list" THEN reply.v ELSE ListOf(<<>>))
  ELSE IF req.op \in {"getTask", "createTask", "updateTask"} THEN Fulfilled(reply.v)
  ELSE IF req.op = "deleteTask" THEN Fulfilled(Undefined)
  ELSE Fulfilled(IF Nullish(reply.v) THEN SuccessObject ELSE reply.v)

TaskDataAfterAliased(op, taskData, now) ==
  IF op = "createTask" THEN CreatePayload(taskData, now) ELSE UpdatePayload(taskData, now)

\* the caller's taskData object once createTask / updateTask has built its
\* payload: apiPayload is a spread copy ({ ...taskData }), every write goes
\* to the copy
TaskDataAfter(op, taskData, now) == taskData

FurtherRequestsRetry(req, reply) ==
  IF ~reply.ok THEN <<req>> ELSE <<>>

\* the requests a client function issues once its request is answered: the
\* try block returns the body, the catch block calls handleApiError; neither
\* issues another request
FurtherRequests(req, reply) == <<>>

\* ---------------------------------------------------------------- validators
\* z.number().int().positive()
PositiveInt(v) == v.t = "num" /\ v.n > 0
\* z.string().datetime() or z.string().regex(/^\d{4}-\d{2}-\d{2}$/)
DateString(v) == v.t = "str" /\ v.fmt \in {"iso", "date"}
\* deadlineSchemaType / snoozeUntilSchemaType without .optional()
DeadlineType(v) == PositiveInt(v) \/ DateString(v)
IsArgsObject(params) == params # Undefined

\* the keys of the task properties shape other than title
OptionalFieldsOk(params) ==
  /\ Defined(params, "notes") => params["notes"].t = "str"
  /\ Defined(params, "timeChunksRequired") => PositiveInt(params["timeChunksRequired"])
  /\ Defined(params, "deadline") => DeadlineType(params["deadline"])
  /\ Defined(params, "snoozeUntil") => DeadlineType(params["snoozeUntil"])

\* z.string().min(1)
TitleOk(v) == v.t = "str" /\ v.fmt # "empty"

TaskShapeKeys == {"title", "notes", "timeChunksRequired", "deadline", "snoozeUntil"}

\* createTaskSchema accepts params
createTaskSchemaOk(params) ==
  /\ IsArgsObject(params)
  /\ Defined(params, "title") /\ TitleOk(params["title"])
  /\ OptionalFieldsOk(params)

\* updateTaskSchema accepts params
updateTaskSchemaOk(params) ==
  /\ IsArgsObject(params)
  /\ Defined(params, "taskId") /\ PositiveInt(params["taskId"])
  /\ Defined(params, "title") => TitleOk(params["title"])
  /\ OptionalFieldsOk(params)

\* the object a z.object() parse returns: the keys of the shape that the
\* input carries
ParsedObject(params, shapeKeys) == [x \in DOMAIN params \cap shapeKeys |-> params[x]]

ZodError == Err("ZodError", <<"validation issues">>, "none", Undefined)

\* ---------------------------------------------------------------- tool handlers
\* what a handler does before the first await of an upstream reply: throws,
\* returns a result, or calls a client operation
HThrow(e) == [k |-> "throw", v |-> e, op |-> "none", a |-> Undefined, filter |-> "none"]
HReturn(r) == [k |-> "return", v |-> r, op |-> "none", a |-> Undefined, filter |-> "none"]
HClient(op, a, filter) == [k |-> "client", v |-> Undefined, op |-> op, a |-> a, filter |-> filter]

NoArgs == ClientArgs(0, EmptyObject, 0, Undefined)
IdArgs(params) == ClientArgs(params["taskId"].n, EmptyObject, 0, Undefined)

\* handleCreateTask: createTaskSchema.parse throws a ZodError
handleCreateTask(params) ==
  IF ~createTaskSchemaOk(params) THEN HThrow(ZodError)
  ELSE HClient("createTask",
               ClientArgs(0, ParsedObject(params, TaskShapeKeys), 0, Undefined), "none")

MissingFieldsResult ==
  ToolResult(TRUE, <<TextBlock("message", Undefined,
    <<"Update requires ", "at least one field", " to change besides taskId.">>)>>)

handleUpdateTaskNoFieldCheck(params) ==
  IF ~updateTaskSchemaOk(params) THEN HThrow(ZodError)
  ELSE HClient("updateTask",
               ClientArgs(params["taskId"].n, ParsedObject(params, TaskShapeKeys), 0, Undefined),
               "none")

\* handleUpdateTask: updateTaskSchema.parse throws a ZodError; no update
\* field gives an error result
handleUpdateTask(params) ==
  IF ~updateTaskSchemaOk(params) THEN HThrow(ZodError)
  ELSE
    LET updateData == ParsedObject(params, TaskShapeKeys) IN
    IF DOMAIN updateData = {} THEN HReturn(MissingFieldsResult)
    ELSE HClient("updateTask", ClientArgs(params["taskId"].n, updateData, 0, Undefined), "none")

\* reclaim_list_tasks: filter is "active" or "all", default "active"
handleListTasks(params) ==
  IF ~IsArgsObject(params) THEN HThrow(ZodError)
  ELSE IF ~Defined(params, "filter") THEN HClient("listTasks", NoArgs, "active")
  ELSE IF params["filter"].t = "enum" /\ params["filter"].s \in {"active", "all"}
    THEN HClient("listTasks", NoArgs, params["filter"].s)
  ELSE HThrow(ZodError)

\* the handlers that take { taskId } only
TaskIdTools ==
  [reclaim_get_task |-> "getTask",
   reclaim_mark_complete |-> "markTaskComplete",
   reclaim_mark_incomplete |-> "markTaskIncomplete",
   reclaim_delete_task |-> "deleteTask",
   reclaim_start_timer |-> "startTaskTimer",
   reclaim_stop_timer |-> "stopTaskTimer",
   reclaim_clear_exceptions |-> "clearTaskExceptions",
   reclaim_prioritize |-> "prioritizeTask"]

TaskIdOk(params) ==
  IsArgsObject(params) /\ Defined(params, "taskId") /\ PositiveInt(params["taskId"])

handleTaskIdTool(name, params) ==
  IF ~TaskIdOk(params) THEN HThrow(ZodError)
  ELSE HClient(TaskIdTools[name], IdArgs(params), "none")

MinutesOk(params) == Defined(params, "minutes") /\ PositiveInt(params["minutes"])

handleAddTime(params) ==
  IF ~(TaskIdOk(params) /\ MinutesOk(params)) THEN HThrow(ZodError)
  ELSE HClient("addTimeToTask",
               ClientArgs(params["taskId"].n, EmptyObject, params["minutes"].n, Undefined), "none")

handleLogWork(params) ==
  IF ~(/\ TaskIdOk(params) /\ MinutesOk(params)
       /\ Defined(params, "end") => DateString(params["end"]))
    THEN HThrow(ZodError)
  ELSE HClient("logWorkForTask",
               ClientArgs(params["taskId"].n, EmptyObject, params["minutes"].n,
                          IF Defined(params, "end") THEN params["end"] ELSE Undefined),
               "none")

\* toolHandlers: the thirteen registered tool names
ToolNames ==
  DOMAIN TaskIdTools \cup
  {"reclaim_list_tasks", "reclaim_add_time", "reclaim_log_work",
   "reclaim_create_task", "reclaim_update_task"}

HandlerStart(name, params) ==
  CASE name = "reclaim_list_tasks" -> handleListTasks(params)
    [] name = "reclaim_add_time" -> handleAddTime(params)
    [] name = "reclaim_log_work" -> handleLogWork(params)
    [] name = "reclaim_create_task" -> handleCreateTask(params)
    [] name = "reclaim_update_task" -> handleUpdateTask(params)
    [] OTHER -> handleTaskIdTool(name, params)

StatusNote == TextBlock("note", Undefined, <<"statusNote">>)
GetTaskStatusNote == TextBlock("note", Undefined, <<"getTimeStatusNote">>)

\* result.content.push(note) unless the result is an error
PushNote(out, note) ==
  IF out.k = "returned" /\ ~out.v.isError
    THEN Returned(ToolResult(FALSE, Append(out.v.content, note)))
    ELSE out

\* listTasks().then(tasks => filter === "active" ? filterActiveTasks(tasks) : tasks)
ThenFilter(promise, filter) ==
  IF promise.k = "fulfilled" /\ filter = "active"
    THEN Fulfilled(ListOf(filterActiveTasks(promise.v)))
    ELSE promise

\* what a handler does with the settled promise of its client operation
HandlerFinish(name, filter, promise) ==
  IF name = "reclaim_list_tasks"
    THEN PushNote(wrapApiCall(ThenFilter(promise, filter)), StatusNote)
  ELSE IF name = "reclaim_get_task"
    THEN PushNote(wrapApiCall(promise), GetTaskStatusNote)
  ELSE wrapApiCall(promise)

\* ---------------------------------------------------------------- dispatcher
NotFoundResult(toolName) ==
  ToolResult(TRUE, <<TextBlock("message", Undefined, <<"Tool ", toolName, " not found.">>)>>)

\* the catch block of the CallTool request handler
DispatchCatch(toolName, error) ==
  LET errorMessage ==
        IF error.t \in {"Error", "ReclaimError", "ZodError", "AxiosError"}
          THEN error.message
          ELSE <<"An unknown error occurred during tool execution.">>
  IN ToolResult(TRUE, <<TextBlock("message", Undefined,
                         <<"Error calling ", toolName, ": ">> \o errorMessage)>>)

\* what the CallTool request handler gives the transport for what the tool
\* handler did
DispatchNoCatch(toolName, handlerOut) == handlerOut

Dispatch(toolName, handlerOut) ==
  IF handlerOut.k = "thrown"
    THEN Returned(DispatchCatch(toolName, handlerOut.v))
    ELSE handlerOut

\* ---------------------------------------------------------------- resource
\* wrapResourceCall: the JSON text of the result, or a thrown Error
wrapResourceCall(promise) ==
  IF promise.k = "fulfilled"
    THEN Returned([contents |-> <<[uri |-> "tasks://active", mimeType |-> "application/json",
                                   text |-> TextBlock("json", promise.v, <<>>)]>>])
    ELSE Thrown(PlainError(<<"Failed to fetch resource ", "tasks://active", ": ">>
                           \o promise.v.message))

\* ---------------------------------------------------------------- inputs
Absent == [t |-> "absent"]
\* the object with the keys of r whose value is not Absent
Obj(r) == [x \in {y \in DOMAIN r : r[y].t # "absent"} |-> r[x]]
Enum(s) == [t |-> "enum", s |-> s]

DateStrings == {Str("date", m, d) : m \in {2, 13}, d \in {1, 30}}
DeadlineInputs ==
  {Num(n) : n \in (-1..MaxDays) \cup {HugeDays}} \cup {toISOString(MaxNow + 1)}
    \cup DateStrings
    \cup {Text, EmptyStr}
SnoozeInputs == {Num(1), Text}
TaskIdInputs == {Num(n) : n \in 0..MaxTaskId} \cup {Text}
MinuteInputs == {Num(-30), Num(0), Num(30)}

\* the arguments a CallTool request can carry for a tool
TaskFieldArgs ==
  [title : {Absent, Text, EmptyStr, Num(1)},
   timeChunksRequired : {Absent, Num(2), Num(0)},
   deadline : {Absent} \cup DeadlineInputs,
   snoozeUntil : {Absent} \cup SnoozeInputs]

ToolArgs(name) ==
  {Undefined} \cup
  CASE name = "reclaim_list_tasks" ->
         {Obj(r) : r \in [filter : {Absent, Enum("active"), Enum("all"), Enum("done")}]}
    [] name = "reclaim_add_time" ->
         {Obj(r) : r \in [taskId : {Absent} \cup TaskIdInputs,
                          minutes : {Absent} \cup MinuteInputs]}
    [] name = "reclaim_log_work" ->
         {Obj(r) : r \in [taskId : {Num(1)},
                          minutes : {Absent} \cup MinuteInputs,
                          end : {Absent, Text, EmptyStr, toISOString(MaxNow + 1)}
                                  \cup DateStrings]}
    [] name = "reclaim_create_task" -> {Obj(r) : r \in TaskFieldArgs}
    [] name = "reclaim_update_task" ->
         {Obj([taskId |-> id] @@ r) : id \in {Absent, Num(0), Num(1)}, r \in TaskFieldArgs}
    [] OTHER -> {Obj(r) : r \in [taskId : {Absent} \cup TaskIdInputs]}

\* the task data a direct caller of createTask / updateTask can pass
ClientTaskData ==
  {Obj(r) : r \in [title : {Absent, Text},
                   deadline : {Absent, Undefined} \cup DeadlineInputs,
                   due : {Absent, Undefined, EmptyStr, toISOString(MaxNow + 2)},
                   snoozeUntil : {Absent} \cup SnoozeInputs]}

\* the arguments a direct caller can pass to a client operation
ClientArgsFor(op) ==
  CASE op = "listTasks" -> {NoArgs}
    [] op = "createTask" -> {ClientArgs(0, d, 0, Undefined) : d \in ClientTaskData}
    [] op = "updateTask" ->
         {ClientArgs(id, d, 0, Undefined) : id \in 1..MaxTaskId, d \in ClientTaskData}
    [] op = "addTimeToTask" ->
         {ClientArgs(id, EmptyObject, m.n, Undefined) : id \in 1..MaxTaskId, m \in MinuteInputs}
    [] op = "logWorkForTask" ->
         {ClientArgs(1, EmptyObject, m.n, e) :
            m \in MinuteInputs,
            e \in {Undefined, Text, EmptyStr, toISOString(MaxNow + 1)} \cup DateStrings}
    [] OTHER -> {ClientArgs(id, EmptyObject, 0, Undefined) : id \in 1..MaxTaskId}

SampleTask(id) == [id |-> id, status |-> "NEW", deleted |-> "false"]

\* the operations that read the clock (through parseDeadline)
ClockOps == {"createTask", "updateTask", "logWorkForTask"}
ClockTools == {"reclaim_create_task", "reclaim_update_task", "reclaim_log_work"}
Clock(reads) == IF reads THEN 0..MaxNow ELSE {0}

UpstreamFailures == AxiosErrors \cup TransportErrors \cup ThrownValues

\* the replies upstream can give to a request
Replies(req) ==
  {Fail(e) : e \in UpstreamFailures} \cup
  CASE req.op = "listTasks" -> {Ok(ListOf(l)) : l \in TaskLists} \cup {Ok(Undefined)}
    [] req.op \in {"getTask", "updateTask"} ->
         {Ok(TaskValue(task)) : task \in TaskRecords(req.taskId)}
    [] req.op = "createTask" -> {Ok(TaskValue(SampleTask(MaxTaskId)))}
    [] req.op = "deleteTask" -> {Ok(Undefined)}
    [] OTHER -> {Ok(Undefined), Ok(Null), Ok(TaskValue(SampleTask(req.taskId)))}

\* the settled promises a caller can hand to wrapApiCall
PromiseOutcomes ==
  {Fulfilled(v) : v \in {Undefined, Null, Text, Num(1), SuccessObject, Circular,
                         TaskValue(SampleTask(1)), ListOf(<<>>)}}
    \cup {Rejected(handleApiError(e, "getTask")) : e \in UpstreamFailures}
    \cup {Rejected(e) : e \in TransportErrors \cup ThrownValues}

\* ---------------------------------------------------------------- mock API client
\* createReclaimApiMock keeps the tasks in memory.  A stored task is an object
\* with the keys id, status, timeChunksSpent, timeChunksRemaining and, when
\* present, timeChunksRequired and finished; the keys no operation reads
\* (title, notes, priority, created, updated, ...) are left out.
FirstTaskId == 100000

sampleTasks ==
  << [id |-> 12345, status |-> "NEW", timeChunksRequired |-> 4,
      timeChunksSpent |-> 0, timeChunksRemaining |-> 4],
     [id |-> 67890, status |-> "IN_PROGRESS", timeChunksRequired |-> 8,
      timeChunksSpent |-> 2, timeChunksRemaining |-> 6],
     [id |-> 54321, status |-> "NEW", timeChunksRequired |-> 2,
      timeChunksSpent |-> 0, timeChunksRemaining |-> 2],
     [id |-> 98765, status |-> "ARCHIVED", timeChunksRequired |-> 2,
      timeChunksSpent |-> 2, timeChunksRemaining |-> 0, finished |-> "timestamp"],
     [id |-> 24680, status |-> "COMPLETE", timeChunksRequired |-> 6,
      timeChunksSpent |-> 6, timeChunksRemaining |-> 0] >>

\* o.k || 0 for a numeric key
OrZero(o, k) == IF HasKey(o, k) THEN o[k] ELSE 0
\* Math.ceil(minutes / 30) for minutes > 0
Chunks(minutes) == (minutes + 29) \div 30

\* tasks.findIndex((task) => task.id === taskId), counted from 1; 0 is -1
FindIndex(stored, taskId) ==
  IF \E i \in 1..Len(stored) : stored[i].id = taskId
    THEN CHOOSE i \in 1..Len(stored) :
           /\ stored[i].id = taskId
           /\ \A j \in 1..(i - 1) : stored[j].id # taskId
    ELSE 0

TaskNotFound ==
  Throw(Err("ReclaimError", <<"Task with ID ${taskId} not found">>, "404",
            "TASK_NOT_FOUND"))

createTaskIdReused(next) == [id |-> next, next |-> next]

\* createTaskId: return nextTaskId++
createTaskId(next) == [id |-> next, next |-> next + 1]

\* the task ids the callers of the mock use: a sample task with work logged
\* and the first id createTask hands out
MockTaskIds == {67890, FirstTaskId}
\* the task data a caller passes to createTask / updateTask of the mock
MockTaskData ==
  {[k \in keys |-> IF k = "status" THEN "COMPLETE" ELSE 1] :
     keys \in SUBSET {"status", "timeChunksRequired"}}
MockMinutes == {0, 30, 60}

\* ---------------------------------------------------------------- concurrent invocations
\* the replies upstream gives to the requests of the invocations that run
\* side by side
ConcurrentReplies(req) ==
  {Fail(e) : e \in TransportErrors} \cup
  CASE req.op = "listTasks" -> {Ok(ListOf(<<>>)), Ok(ListOf(<<SampleTask(1)>>))}
    [] req.op = "getTask" -> {Ok(TaskValue(SampleTask(req.taskId)))}
    [] OTHER -> {Ok(Undefined)}

AllocateShared(lists, blocks) == <<blocks>>

\* the content array of a result is an array literal: a new array, apart
\* from every array allocated before; its address is the number of arrays
Allocate(lists, blocks) == Append(lists, blocks)

\* ---------------------------------------------------------------- state
VARIABLES
  pc,          \* "idle", "awaiting" (an upstream request is in flight), "done"
  inv,         \* the invocation being served
  requests,    \* the upstream requests the invocation has issued
  replies,     \* the upstream replies it has received
  clientOut,   \* how the promise of the client operation settled
  handlerOut,  \* what the tool handler (or wrapper, or resource) did
  toolOut,     \* what the CallTool request handler gave the transport
  callerData,  \* the caller's taskData object of a createTask / updateTask call
  mockTasks,   \* the tasks array of the mock API client
  nextTaskId,  \* the id counter of the mock API client
  calls,       \* the length of the mock's call log
  lastCall,    \* the newest entry of the call log, with its outcome
  deletedIds,  \* the ids deleteTask has removed, as the call log tells
  lifecycle,   \* how far the task lifecycle has come, as the call log tells
  running,     \* the tool invocations that run side by side
  contentLists \* the content arrays allocated for their results

serverVars == <<pc, inv, requests, replies, clientOut, handlerOut, toolOut, callerData>>
mockVars == <<mockTasks, nextTaskId, calls, lastCall, deletedIds, lifecycle>>
concurrentVars == <<running, contentLists>>
vars == <<serverVars, mockVars, concurrentVars>>

\* layer: "tool" (CallTool request), "client" (direct call of a client
\* operation), "wrap" (direct call of wrapApiCall), "parse" (direct call of
\* parseDeadline), "filter" (direct call of filterActiveTasks), "resource"
Invocation(layer, name, params, op, a, filter, now) ==
  [layer |-> layer, name |-> name, params |-> params, op |-> op, a |-> a,
   filter |-> filter, now |-> now]

NoInvocation == Invocation("none", "none", Undefined, "none", Undefined, "none", 0)

Init ==
  /\ pc = "idle"
  /\ inv = NoInvocation
  /\ requests = <<>>
  /\ replies = <<>>
  /\ clientOut = NoOutcome
  /\ handlerOut = NoOutcome
  /\ toolOut = NoOutcome
  /\ callerData = Undefined
  /\ mockTasks = sampleTasks
  /\ nextTaskId = FirstTaskId
  /\ calls = 0
  /\ lastCall = [method |-> "none", taskId |-> 0, minutes |-> 0,
                 taskData |-> EmptyObject, gone |-> FALSE, before |-> Undefined,
                 out |-> Return(Undefined)]
  /\ deletedIds = {}
  /\ lifecycle = [id |-> 0, stage |-> 0]
  /\ running = [p \in 1..MaxInvocations |->
                 [pc |-> "idle", name |-> "none", filter |-> "none",
                  req |-> Undefined, reply |-> Undefined, result |-> Undefined,
                  toolOut |-> NoOutcome]]
  /\ contentLists = <<>>

\* CallTool request handler: look the tool up, run its handler up to the
\* first upstream request
CallTool ==
  /\ pc = "idle"
  /\ UNCHANGED <<callerData, mockVars, concurrentVars>>
  /\ \E toolName \in ToolNames \cup {"reclaim_unknown"} :
     \E now \in Clock(toolName \in ClockTools) :
     IF toolName \notin ToolNames THEN
       /\ inv' = Invocation("tool", toolName, Undefined, "none", Undefined, "none", now)
       /\ toolOut' = Returned(NotFoundResult(toolName))
       /\ pc' = "done"
       /\ UNCHANGED <<requests, replies, clientOut, handlerOut>>
     ELSE \E params \in ToolArgs(toolName) :
       LET h == HandlerStart(toolName, params)
           start == ClientStart(h.op, h.a, now)
       IN
       /\ inv' = Invocation("tool", toolName, params, h.op, h.a, h.filter, now)
       /\ replies' = replies
       /\ IF h.k = "throw" THEN
            /\ handlerOut' = Thrown(h.v)
            /\ toolOut' = Dispatch(toolName, Thrown(h.v))
            /\ pc' = "done"
            /\ UNCHANGED <<requests, clientOut>>
          ELSE IF h.k = "return" THEN
            /\ handlerOut' = Returned(h.v)
            /\ toolOut' = Dispatch(toolName, Returned(h.v))
            /\ pc' = "done"
            /\ UNCHANGED <<requests, clientOut>>
          ELSE IF start.k = "reject" THEN
            /\ clientOut' = Rejected(start.error)
            /\ handlerOut' = HandlerFinish(toolName, h.filter, Rejected(start.error))
            /\ toolOut' = Dispatch(toolName, handlerOut')
            /\ pc' = "done"
            /\ UNCHANGED requests
          ELSE
            /\ requests' = Append(requests, start.req)
            /\ pc' = "awaiting"
            /\ UNCHANGED <<clientOut, handlerOut, toolOut>>

\* a direct call of an API client operation, up to its first request
CallClient ==
  /\ pc = "idle"
  /\ UNCHANGED <<mockVars, concurrentVars>>
  /\ \E op \in ClientOps : \E now \in Clock(op \in ClockOps), a \in ClientArgsFor(op) :
       LET start == ClientStart(op, a, now) IN
       /\ inv' = Invocation("client", op, Undefined, op, a, "none", now)
       /\ callerData' = IF op \in {"createTask", "updateTask"}
                          THEN TaskDataAfter(op, a.data, now)
                          ELSE Undefined
       /\ IF start.k = "reject" THEN
            /\ clientOut' = Rejected(start.error)
            /\ pc' = "done"
            /\ UNCHANGED requests
          ELSE
            /\ requests' = Append(requests, start.req)
            /\ pc' = "awaiting"
            /\ UNCHANGED clientOut
       /\ UNCHANGED <<replies, handlerOut, toolOut>>

\* a read of the tasks://active resource, up to the listTasks request
ReadActiveTasks ==
  /\ pc = "idle"
  /\ UNCHANGED <<callerData, mockVars, concurrentVars>>
  /\ inv' = Invocation("resource", "tasks://active", Undefined, "listTasks", NoArgs,
                       "active", 0)
  /\ requests' = Append(requests, ClientStart("listTasks", NoArgs, 0).req)
  /\ pc' = "awaiting"
  /\ UNCHANGED <<replies, clientOut, handlerOut, toolOut>>

\* a direct call of wrapApiCall on a promise that settles
WrapPromise ==
  /\ pc = "idle"
  /\ UNCHANGED <<callerData, mockVars, concurrentVars>>
  /\ \E promise \in PromiseOutcomes :
       /\ inv' = Invocation("wrap", "wrapApiCall", Undefined, "none", Undefined, "none", 0)
       /\ clientOut' = promise
       /\ handlerOut' = wrapApiCall(promise)
  /\ pc' = "done"
  /\ UNCHANGED <<requests, replies, toolOut>>

\* a direct call of parseDeadline
ParseDeadline ==
  /\ pc = "idle"
  /\ UNCHANGED <<callerData, mockVars, concurrentVars>>
  /\ \E now \in Clock(TRUE), deadlineInput \in {Undefined} \cup DeadlineInputs :
       /\ inv' = Invocation("parse", "parseDeadline", deadlineInput, "none", Undefined,
                            "none", now)
       /\ handlerOut' = Returned(parseDeadline(deadlineInput, now))
  /\ pc' = "done"
  /\ UNCHANGED <<requests, replies, clientOut, toolOut>>

\* the arguments a direct caller hands to filterActiveTasks: arrays of tasks
\* and values that are not arrays
FilterInputs ==
  {Undefined, Null, Text, Num(1), SuccessObject, TaskValue(SampleTask(1))}
    \cup {ListOf(l) : l \in {t \in TaskLists : Len(t) <= 1}}

\* a direct call of filterActiveTasks
FilterTasks ==
  /\ pc = "idle"
  /\ UNCHANGED <<callerData, mockVars, concurrentVars>>
  /\ \E tasks \in FilterInputs :
       /\ inv' = Invocation("filter", "filterActiveTasks", tasks, "none", Undefined,
                            "none", 0)
       /\ handlerOut' = Returned(ListOf(filterActiveTasks(tasks)))
  /\ pc' = "done"
  /\ UNCHANGED <<requests, replies, clientOut, toolOut>>

\* upstream answers the request in flight; the client operation, the
\* handler and the dispatcher run to completion
UpstreamReply ==
  /\ pc = "awaiting"
  /\ UNCHANGED <<callerData, mockVars, concurrentVars>>
  /\ Len(requests) <= MaxRequests
  /\ \E reply \in Replies(requests[Len(requests)]) :
       LET promise == ClientFinish(requests[Len(requests)], reply)
           further == FurtherRequests(requests[Len(requests)], reply)
       IN
       /\ replies' = Append(replies, reply)
       /\ IF further # <<>> THEN
            /\ requests' = requests \o further
            /\ pc' = "awaiting"
            /\ UNCHANGED <<clientOut, handlerOut, toolOut>>
          ELSE
            /\ requests' = requests
            /\ pc' = "done"
            /\ clientOut' = promise
            /\ IF inv.layer = "tool" THEN
                 /\ handlerOut' = HandlerFinish(inv.name, inv.filter, promise)
                 /\ toolOut' = Dispatch(inv.name, handlerOut')
               ELSE IF inv.layer = "resource" THEN
                 /\ handlerOut' = wrapResourceCall(ThenFilter(promise, inv.filter))
                 /\ UNCHANGED toolOut
               ELSE UNCHANGED <<handlerOut, toolOut>>
  /\ UNCHANGED inv

\* the invocation is over; the server is ready for the next one
Finish ==
  /\ pc = "done"
  /\ UNCHANGED <<mockVars, concurrentVars>>
  /\ pc' = "idle"
  /\ inv' = NoInvocation
  /\ requests' = <<>>
  /\ replies' = <<>>
  /\ clientOut' = NoOutcome
  /\ handlerOut' = NoOutcome
  /\ toolOut' = NoOutcome
  /\ callerData' = Undefined

Next ==
  \/ CallTool
  \/ CallClient
  \/ ReadActiveTasks
  \/ WrapPromise
  \/ ParseDeadline
  \/ FilterTasks
  \/ UpstreamReply
  \/ Finish

Spec == Init /\ [][Next]_vars

\* recordCall and the effect of a method of the mock: the call is logged
\* with how its promise settles (out), the tasks array and the id counter
\* become stored and next.  The log also tells which ids deleteTask has
\* removed and how far the lifecycle create, prioritize, startTimer,
\* stopTimer, markComplete, markIncomplete has come on one task: a
\* createTask without a status starts it on the new task, the next step on
\* that task advances it, a call that fails or only reads or moves time
\* chunks leaves it, any other call on that task ends it
MockCall(method, taskId, minutes, taskData, stored, next, out) ==
  LET steps == << "createTask", "prioritizeTask", "startTaskTimer", "stopTaskTimer",
                  "markTaskComplete", "markTaskIncomplete" >>
      i == FindIndex(mockTasks, taskId)
  IN
  /\ calls' = calls + 1
  /\ mockTasks' = stored
  /\ nextTaskId' = next
  /\ lastCall' = [method |-> method, taskId |-> taskId, minutes |-> minutes,
                  taskData |-> taskData, gone |-> taskId \in deletedIds,
                  before |-> IF i = 0 THEN Undefined ELSE mockTasks[i],
                  out |-> out]
  /\ deletedIds' = IF method = "deleteTask" /\ ~out.thrown
                     THEN deletedIds \cup {taskId}
                     ELSE deletedIds
  /\ lifecycle' =
       IF method = "createTask" THEN
         IF HasKey(taskData, "status") THEN lifecycle
         ELSE [id |-> out.v.id, stage |-> 1]
       ELSE IF taskId # lifecycle.id \/ out.thrown THEN lifecycle
       ELSE IF method \in {"getTask", "addTimeToTask", "logWorkForTask",
                           "clearTaskExceptions"} THEN lifecycle
       ELSE IF lifecycle.stage < Len(steps) /\ method = steps[lifecycle.stage + 1]
         THEN [lifecycle EXCEPT !.stage = lifecycle.stage + 1]
       ELSE [id |-> 0, stage |-> 0]
  /\ UNCHANGED <<serverVars, concurrentVars>>

MockGetTask ==
  /\ calls < MaxCalls
  /\ \E taskId \in MockTaskIds :
       LET i == FindIndex(mockTasks, taskId) IN
       MockCall("getTask", taskId, 0, EmptyObject, mockTasks, nextTaskId,
                IF i = 0 THEN TaskNotFound ELSE Return(mockTasks[i]))

MockCreateTask ==
  /\ calls < MaxCalls
  /\ \E taskData \in MockTaskData :
       LET fresh == createTaskId(nextTaskId)
           baseTask == [id |-> fresh.id,
                        timeChunksSpent |-> 0,
                        timeChunksRemaining |-> OrZero(taskData, "timeChunksRequired"),
                        status |-> IF HasKey(taskData, "status") THEN taskData.status
                                   ELSE "NEW"]
           newTask == IF HasKey(taskData, "timeChunksRequired")
                        THEN SetKey(baseTask, "timeChunksRequired",
                                    taskData.timeChunksRequired)
                        ELSE baseTask
       IN MockCall("createTask", 0, 0, taskData, Append(mockTasks, newTask),
                   fresh.next, Return(newTask))

\* updatedTask is { ...tasks[i], ...taskData } with timeChunksRemaining
\* recomputed when timeChunksRequired is given; cleanTask, the task stored,
\* is the existing task overwritten with every key updatedTask defines
MockUpdateTask ==
  /\ calls < MaxCalls
  /\ \E taskId \in MockTaskIds, taskData \in MockTaskData :
       LET i == FindIndex(mockTasks, taskId)
           merged == taskData @@ mockTasks[i]
           updatedTask ==
             IF HasKey(taskData, "timeChunksRequired")
               THEN SetKey(merged, "timeChunksRemaining",
                           taskData.timeChunksRequired
                             - OrZero(merged, "timeChunksSpent"))
               ELSE merged
           cleanTask == [updatedTask EXCEPT !.id = taskId] @@ mockTasks[i]
       IN
       IF i = 0 THEN
         MockCall("updateTask", taskId, 0, taskData, mockTasks, nextTaskId, TaskNotFound)
       ELSE
         MockCall("updateTask", taskId, 0, taskData,
                  [mockTasks EXCEPT ![i] = cleanTask], nextTaskId, Return(updatedTask))

MockDeleteTask ==
  /\ calls < MaxCalls
  /\ \E taskId \in MockTaskIds :
       LET i == FindIndex(mockTasks, taskId) IN
       IF i = 0 THEN
         MockCall("deleteTask", taskId, 0, EmptyObject, mockTasks, nextTaskId,
                  TaskNotFound)
       ELSE
         MockCall("deleteTask", taskId, 0, EmptyObject,
                  SubSeq(mockTasks, 1, i - 1) \o SubSeq(mockTasks, i + 1, Len(mockTasks)),
                  nextTaskId, Return(Undefined))

MockMarkTaskComplete ==
  /\ calls < MaxCalls
  /\ \E taskId \in MockTaskIds :
       LET i == FindIndex(mockTasks, taskId)
           task == [id |-> taskId, status |-> "ARCHIVED", finished |-> "timestamp"]
                     @@ mockTasks[i]
       IN
       IF i = 0 THEN
         MockCall("markTaskComplete", taskId, 0, EmptyObject, mockTasks, nextTaskId,
                  TaskNotFound)
       ELSE
         MockCall("markTaskComplete", taskId, 0, EmptyObject,
                  [mockTasks EXCEPT ![i] = task], nextTaskId, Return(SuccessObject))

MockMarkTaskIncomplete ==
  /\ calls < MaxCalls
  /\ \E taskId \in MockTaskIds :
       LET i == FindIndex(mockTasks, taskId)
           reopened == [id |-> taskId, status |-> "IN_PROGRESS"] @@ mockTasks[i]
           \* delete taskCopy.finished
           task == [k \in DOMAIN reopened \ {"finished"} |-> reopened[k]]
       IN
       IF i = 0 THEN
         MockCall("markTaskIncomplete", taskId, 0, EmptyObject, mockTasks, nextTaskId,
                  TaskNotFound)
       ELSE
         MockCall("markTaskIncomplete", taskId, 0, EmptyObject,
                  [mockTasks EXCEPT ![i] = task], nextTaskId, Return(SuccessObject))

MockAddTimeToTask ==
  /\ calls < MaxCalls
  /\ \E taskId \in MockTaskIds, minutes \in MockMinutes :
       LET i == FindIndex(mockTasks, taskId)
           task == SetKey(SetKey(mockTasks[i], "timeChunksRequired",
                                 OrZero(mockTasks[i], "timeChunksRequired")
                                   + Chunks(minutes)),
                          "timeChunksRemaining",
                          OrZero(mockTasks[i], "timeChunksRemaining") + Chunks(minutes))
       IN
       IF minutes <= 0 THEN
         MockCall("addTimeToTask", taskId, minutes, EmptyObject, mockTasks, nextTaskId,
                  Throw(PlainError(<<"Minutes must be positive to add time.">>)))
       ELSE IF i = 0 THEN
         MockCall("addTimeToTask", taskId, minutes, EmptyObject, mockTasks, nextTaskId,
                  TaskNotFound)
       ELSE
         MockCall("addTimeToTask", taskId, minutes, EmptyObject,
                  [mockTasks EXCEPT ![i] = task], nextTaskId,
                  Return([events |-> <<>>, taskOrHabit |-> task]))

MockStartTaskTimer ==
  /\ calls < MaxCalls
  /\ \E taskId \in MockTaskIds :
       LET i == FindIndex(mockTasks, taskId)
           task == SetKey(mockTasks[i], "status", "IN_PROGRESS")
       IN
       IF i = 0 THEN
         MockCall("startTaskTimer", taskId, 0, EmptyObject, mockTasks, nextTaskId,
                  TaskNotFound)
       ELSE
         MockCall("startTaskTimer", taskId, 0, EmptyObject,
                  [mockTasks EXCEPT ![i] = task], nextTaskId,
                  Return([events |-> <<>>, taskOrHabit |-> task]))

\* stopTaskTimer looks the task up and returns it as it is
MockStopTaskTimer ==
  /\ calls < MaxCalls
  /\ \E taskId \in MockTaskIds :
       LET i == FindIndex(mockTasks, taskId) IN
       MockCall("stopTaskTimer", taskId, 0, EmptyObject, mockTasks, nextTaskId,
                IF i = 0 THEN TaskNotFound
                ELSE Return([events |-> <<>>, taskOrHabit |-> mockTasks[i]]))

MockLogWorkForTask ==
  /\ calls < MaxCalls
  /\ \E taskId \in MockTaskIds, minutes \in MockMinutes :
       LET i == FindIndex(mockTasks, taskId)
           spent == OrZero(mockTasks[i], "timeChunksSpent") + Chunks(minutes)
           left == OrZero(mockTasks[i], "timeChunksRequired") - spent
           task == SetKey(SetKey(mockTasks[i], "timeChunksSpent", spent),
                          "timeChunksRemaining", IF left > 0 THEN left ELSE 0)
       IN
       IF minutes <= 0 THEN
         MockCall("logWorkForTask", taskId, minutes, EmptyObject, mockTasks, nextTaskId,
                  Throw(PlainError(<<"Minutes must be positive to log work.">>)))
       ELSE IF i = 0 THEN
         MockCall("logWorkForTask", taskId, minutes, EmptyObject, mockTasks, nextTaskId,
                  TaskNotFound)
       ELSE
         MockCall("logWorkForTask", taskId, minutes, EmptyObject,
                  [mockTasks EXCEPT ![i] = task], nextTaskId,
                  Return([events |-> <<>>, taskOrHabit |-> task]))

\* clearTaskExceptions touches the updated timestamp only
MockClearTaskExceptions ==
  /\ calls < MaxCalls
  /\ \E taskId \in MockTaskIds :
       LET i == FindIndex(mockTasks, taskId) IN
       MockCall("clearTaskExceptions", taskId, 0, EmptyObject, mockTasks, nextTaskId,
                IF i = 0 THEN TaskNotFound
                ELSE Return([events |-> <<>>, taskOrHabit |-> mockTasks[i]]))

MockPrioritizeTask ==
  /\ calls < MaxCalls
  /\ \E taskId \in MockTaskIds :
       LET i == FindIndex(mockTasks, taskId)
           task == SetKey(mockTasks[i], "status", "SCHEDULED")
       IN
       IF i = 0 THEN
         MockCall("prioritizeTask", taskId, 0, EmptyObject, mockTasks, nextTaskId,
                  TaskNotFound)
       ELSE
         MockCall("prioritizeTask", taskId, 0, EmptyObject,
                  [mockTasks EXCEPT ![i] = task], nextTaskId,
                  Return([events |-> <<>>, taskOrHabit |-> task]))

NextMock ==
  \/ MockGetTask
  \/ MockCreateTask
  \/ MockUpdateTask
  \/ MockDeleteTask
  \/ MockMarkTaskComplete
  \/ MockMarkTaskIncomplete
  \/ MockAddTimeToTask
  \/ MockStartTaskTimer
  \/ MockStopTaskTimer
  \/ MockLogWorkForTask
  \/ MockClearTaskExceptions
  \/ MockPrioritizeTask

SpecMock == Init /\ [][NextMock]_vars

\* an invocation begins: the handler validates, calls the client operation,
\* the request goes upstream and the handler is suspended
StartInvocation ==
  \E p \in 1..MaxInvocations :
  \E name \in {"reclaim_list_tasks", "reclaim_get_task", "reclaim_delete_task"} :
    LET h == HandlerStart(name, IF name = "reclaim_list_tasks"
                                  THEN Obj([filter |-> Enum("active")])
                                  ELSE Obj([taskId |-> Num(1)]))
    IN
    /\ running[p].pc = "idle"
    /\ running' = [running EXCEPT ![p].pc = "awaiting", ![p].name = name,
                                  ![p].filter = h.filter,
                                  ![p].req = ClientStart(h.op, h.a, 0).req]
    /\ UNCHANGED <<contentLists, serverVars, mockVars>>

\* upstream answers an invocation's request: the client operation settles
\* and wrapApiCall builds the result around a new content array
ReplyInvocation ==
  \E p \in 1..MaxInvocations :
    /\ running[p].pc = "awaiting"
    /\ \E reply \in ConcurrentReplies(running[p].req) :
         LET promise == ThenFilter(ClientFinish(running[p].req, reply),
                                   running[p].filter)
             wrapped == wrapApiCall(promise).v
         IN
         /\ contentLists' = Allocate(contentLists, wrapped.content)
         /\ running' = [running EXCEPT
                          ![p].pc = "wrapped", ![p].reply = reply,
                          ![p].result = ToolResult(wrapped.isError, Len(contentLists'))]
    /\ UNCHANGED <<serverVars, mockVars>>

\* the handler resumes after await wrapApiCall(...): the list and get
\* handlers push their note onto the content array of a successful result
ResumeHandler ==
  \E p \in 1..MaxInvocations :
    LET note == IF running[p].name = "reclaim_list_tasks" THEN <<StatusNote>>
                ELSE IF running[p].name = "reclaim_get_task" THEN <<GetTaskStatusNote>>
                ELSE <<>>
    IN
    /\ running[p].pc = "wrapped"
    /\ contentLists' =
         IF running[p].result.isError THEN contentLists
         ELSE [contentLists EXCEPT ![running[p].result.content] = @ \o note]
    /\ running' = [running EXCEPT ![p].pc = "returned"]
    /\ UNCHANGED <<serverVars, mockVars>>

\* the CallTool request handler gives the result to the transport, which
\* serializes it with the content array as it is then
Deliver ==
  \E p \in 1..MaxInvocations :
    /\ running[p].pc = "returned"
    /\ running' = [running EXCEPT
         ![p].pc = "done",
         ![p].toolOut =
            Dispatch(running[p].name,
                     Returned(ToolResult(running[p].result.isError,
                                         contentLists[running[p].result.content])))]
    /\ UNCHANGED <<contentLists, serverVars, mockVars>>

NextConcurrent ==
  \/ StartInvocation
  \/ ReplyInvocation
  \/ ResumeHandler
  \/ Deliver

SpecConcurrent == Init /\ [][NextConcurrent]_vars

\* ---------------------------------------------------------------- properties
Done == pc = "done"
Tokens(seq) == {seq[i] : i \in 1..Len(seq)}
Elements(seq) == {seq[i] : i \in 1..Len(seq)}

\* a ToolResult is well formed: a non-empty list of text blocks
WellFormed(result) ==
  /\ Len(result.content) >= 1
  /\ \A i \in 1..Len(result.content) : result.content[i].type = "text"

\* the invocation lists the active tasks (tool with filter "active", or the
\* tasks://active resource) and upstream has answered with an array
ListsActive ==
  /\ Done
  /\ inv.filter = "active"
  /\ Len(replies) = 1 /\ replies[1].ok /\ replies[1].v.t = "list"

UpstreamTasks == replies[1].v.items

\* the text block that carries the listed tasks
ListedBlock ==
  IF inv.layer = "tool" THEN toolOut.v.content[1] ELSE handlerOut.v.contents[1].text

\* the result carries a JSON array of tasks
ListsTasks ==
  /\ (IF inv.layer = "tool" THEN toolOut ELSE handlerOut).k = "returned"
  /\ inv.layer = "tool" => ~toolOut.v.isError
  /\ ListedBlock.k = "json" /\ ListedBlock.v.t = "list"

ListedTasks == ListedBlock.v.items

\* C1: every task with status COMPLETE and deleted not true that upstream
\* returns appears in the result of reclaim_list_tasks with filter "active"
\* and in the tasks://active resource
C1_CompleteTasksListed ==
  ListsActive =>
    /\ ListsTasks
    /\ \A i \in 1..Len(UpstreamTasks) :
         (UpstreamTasks[i].status = "COMPLETE" /\ UpstreamTasks[i].deleted # "true")
           => UpstreamTasks[i] \in Elements(ListedTasks)

C1_Witness ==
  /\ ListsActive /\ ListsTasks
  /\ inv.layer = "resource"
  /\ \E i \in 1..Len(UpstreamTasks) :
       /\ UpstreamTasks[i].status = "COMPLETE" /\ UpstreamTasks[i].deleted = "absent"
       /\ UpstreamTasks[i] \in Elements(ListedTasks)
  /\ \E i \in 1..Len(UpstreamTasks) : UpstreamTasks[i] \notin Elements(ListedTasks)

\* the predicate of the claim, stated on its own
Retained(task) ==
  task.deleted # "true" /\ task.status # "ARCHIVED" /\ task.status # "CANCELLED"

RetainedIndexes(tasks) == {i \in 1..Len(tasks) : Retained(tasks[i])}

\* the j-th smallest index of a set of indexes
NthIndex(indexes, j) ==
  CHOOSE i \in indexes : Cardinality({k \in indexes : k <= i}) = j

\* C2: filterActiveTasks returns exactly the subsequence of its input whose
\* elements have deleted != true, status != ARCHIVED and status != CANCELLED,
\* in the original order, nothing added, duplicated or altered
C2_FilterIsSubsequence ==
  ListsActive =>
    /\ ListsTasks
    /\ Len(ListedTasks) = Cardinality(RetainedIndexes(UpstreamTasks))
    /\ \A j \in 1..Len(ListedTasks) :
         ListedTasks[j] = UpstreamTasks[NthIndex(RetainedIndexes(UpstreamTasks), j)]

C2_Witness ==
  /\ ListsActive /\ ListsTasks
  /\ Len(UpstreamTasks) = 3
  /\ UpstreamTasks[2].deleted = "true"
  /\ ListedTasks = <<UpstreamTasks[1], UpstreamTasks[3]>>

C4_DispatcherAlwaysReturns ==
  (Done /\ inv.layer = "tool") =>
    /\ toolOut.k = "returned"
    /\ WellFormed(toolOut.v)
    /\ inv.name \notin ToolNames => toolOut.v.isError

C4_Witness ==
  /\ Done /\ inv.layer = "tool"
  /\ handlerOut.k = "thrown"
  /\ toolOut.k = "returned" /\ toolOut.v.isError /\ WellFormed(toolOut.v)

\* upstream answered the request of this tool call with HTTP status 404
Upstream404 ==
  /\ Done /\ inv.layer = "tool"
  /\ Len(replies) = 1 /\ ~replies[1].ok
  /\ replies[1].v.t = "AxiosError" /\ replies[1].v.status = "404"

\* C5: for every tool, when the upstream request fails with HTTP status 404
\* the tool returns a ToolResult with isError true whose text contains "404"
C5_NotFoundIsReported ==
  Upstream404 =>
    /\ toolOut.k = "returned" /\ toolOut.v.isError
    /\ "404" \in Tokens(toolOut.v.content[1].parts)

C5_Witness ==
  /\ Upstream404
  /\ inv.name = "reclaim_update_task"
  /\ replies[1].v.detail.t = "obj" /\ replies[1].v.detail.message # ""
  /\ toolOut.k = "returned" /\ toolOut.v.isError
  /\ "404" \in Tokens(toolOut.v.content[1].parts)

\* the arguments of a create or update tool call fail validation
ValidationFails ==
  /\ inv.layer = "tool"
  /\ \/ inv.name = "reclaim_create_task" /\ ~createTaskSchemaOk(inv.params)
     \/ /\ inv.name = "reclaim_update_task"
        /\ \/ ~updateTaskSchemaOk(inv.params)
           \/ DOMAIN inv.params \cap TaskShapeKeys = {}

\* C6: every validation failure in the create and update tool handlers is
\* returned from the handler as a ToolResult with isError true; the handler
\* never raises an exception for a validation failure
C6_ValidationNeverThrown ==
  (Done /\ ValidationFails) =>
    /\ handlerOut.k = "returned"
    /\ handlerOut.v.isError

\* the call carries a valid taskId and nothing else
OnlyTaskId ==
  /\ inv.layer = "tool" /\ inv.name = "reclaim_update_task"
  /\ inv.params # Undefined
  /\ DOMAIN inv.params = {"taskId"}
  /\ PositiveInt(inv.params["taskId"])

\* C7: a reclaim_update_task call that carries only taskId gives an error
\* result saying that at least one field is required, and issues no upstream
\* request, neither PATCH nor GET
C7_UpdateWithoutFields ==
  OnlyTaskId =>
    /\ Done
    /\ requests = <<>>
    /\ toolOut.k = "returned" /\ toolOut.v.isError
    /\ "at least one field" \in Tokens(toolOut.v.content[1].parts)

C7_Witness ==
  /\ OnlyTaskId /\ Done
  /\ requests = <<>>
  /\ handlerOut = Returned(MissingFieldsResult)
  /\ toolOut = handlerOut

\* a direct call of addTimeToTask or logWorkForTask with minutes <= 0
NonPositiveMinutes ==
  /\ inv.layer = "client"
  /\ inv.op \in {"addTimeToTask", "logWorkForTask"}
  /\ inv.a.minutes <= 0

\* C8: addTimeToTask and logWorkForTask with minutes <= 0 reject before any
\* upstream request is issued, with a message containing "positive"
C8_MinutesGuard ==
  NonPositiveMinutes =>
    /\ Done
    /\ requests = <<>>
    /\ clientOut.k = "rejected"
    /\ "positive" \in Tokens(clientOut.v.message)

C8_Witness ==
  /\ NonPositiveMinutes /\ Done
  /\ inv.op = "addTimeToTask" /\ inv.a.minutes = -30
  /\ requests = <<>>
  /\ clientOut.k = "rejected" /\ "positive" \in Tokens(clientOut.v.message)

\* C9: every API client operation either returns the response body or fails
\* with a ReclaimError; no invocation fails with another kind of error,
\* local precondition failures included
C9_OnlyReclaimErrors ==
  (Done /\ inv.layer = "client") =>
    /\ clientOut.k \in {"fulfilled", "rejected"}
    /\ clientOut.k = "rejected" => clientOut.v.t = "ReclaimError"

\* the payloads createTask and updateTask have transmitted
SentPayloads ==
  {requests[i].body : i \in {j \in 1..Len(requests) :
                               requests[j].op \in {"createTask", "updateTask"}}}

\* C10: for every createTask or updateTask call whose input carries a defined
\* deadline, the transmitted payload has due equal to the normalized deadline
\* and no deadline key; for every createTask call with neither deadline nor
\* due, the transmitted payload has due = now + 1 day
C10_DeadlineBecomesDue ==
  (inv.layer = "client" /\ inv.op \in {"createTask", "updateTask"}) =>
    \A payload \in SentPayloads :
      /\ Defined(inv.a.data, "deadline") =>
           /\ HasKey(payload, "due")
           /\ payload["due"] = parseDeadline(inv.a.data["deadline"], inv.now)
           /\ ~HasKey(payload, "deadline")
      /\ (/\ inv.op = "createTask"
          /\ ~HasKey(inv.a.data, "deadline")
          /\ ~HasKey(inv.a.data, "due")) =>
           /\ HasKey(payload, "due")
           /\ payload["due"] = toISOString(inv.now + TicksPerDay)

\* a direct call of updateTask
UpdateCall == inv.layer = "client" /\ inv.op = "updateTask"

\* the keys the caller supplied with a defined value
SuppliedKeys(taskData) == {k \in DOMAIN taskData : taskData[k] # Undefined}

\* the PATCH requests the invocation has issued
PatchRequests == {i \in 1..Len(requests) : requests[i].method = "PATCH"}

NothingToUpdate == UpdateCall /\ SuppliedKeys(inv.a.data) = {}

\* C12: updateTask with a payload that is empty after stripping undefined
\* values issues no PATCH and exactly one GET for the task id, and returns the
\* record that GET returned
C12_EmptyUpdateReadsTask ==
  NothingToUpdate =>
    /\ PatchRequests = {}
    /\ Len(requests) = 1
    /\ requests[1].method = "GET" /\ requests[1].path = "/tasks/{id}"
    /\ requests[1].taskId = inv.a.taskId
    /\ (Done /\ replies[1].ok) => clientOut = Fulfilled(replies[1].v)

C12_Witness ==
  /\ NothingToUpdate /\ Done
  /\ DOMAIN inv.a.data = {"deadline", "due"}
  /\ Len(requests) = 1 /\ requests[1].method = "GET"
  /\ requests[1].taskId = MaxTaskId
  /\ replies[1].ok
  /\ clientOut = Fulfilled(replies[1].v) /\ clientOut.v.t = "task"

\* a direct call of parseDeadline has returned
ParseCall == Done /\ inv.layer = "parse"
ParseInput == inv.params
ParseResult == handlerOut.v

\* the calendar day and the time of day of an instant
DayOf(instant) == instant \div TicksPerDay
TimeOfDay(instant) == instant % TicksPerDay

IsTimestamp(v) == v.t = "str" /\ v.fmt = "iso"

\* C13 as stated: for every integer n, parseDeadline returns the current
\* timestamp when n <= 0 and the current timestamp advanced by exactly n
\* calendar days, same time of day, when n > 0; never earlier than now
C13_IntegerDeadline ==
  (ParseCall /\ ParseInput.t = "num") =>
    /\ IsTimestamp(ParseResult)
    /\ ParseInput.n <= 0 => ParseResult.a = inv.now
    /\ ParseInput.n > 0 =>
         /\ DayOf(ParseResult.a) = DayOf(inv.now) + ParseInput.n
         /\ TimeOfDay(ParseResult.a) = TimeOfDay(inv.now)
    /\ ParseResult.a >= inv.now

\* C13 amended: as C13 for n <= 0 and for n > 0 while now + n days is a
\* time value a Date can hold; for a larger n the result is now + 1 day;
\* never earlier than now
C13_IntegerDeadlineInRange ==
  (ParseCall /\ ParseInput.t = "num") =>
    /\ IsTimestamp(ParseResult)
    /\ ParseInput.n <= 0 => ParseResult.a = inv.now
    /\ (ParseInput.n > 0 /\ inv.now + ParseInput.n * TicksPerDay <= MaxInstant) =>
         /\ DayOf(ParseResult.a) = DayOf(inv.now) + ParseInput.n
         /\ TimeOfDay(ParseResult.a) = TimeOfDay(inv.now)
    /\ (ParseInput.n > 0 /\ inv.now + ParseInput.n * TicksPerDay > MaxInstant) =>
         /\ DayOf(ParseResult.a) = DayOf(inv.now) + 1
         /\ TimeOfDay(ParseResult.a) = TimeOfDay(inv.now)
    /\ ParseResult.a >= inv.now

C13_Witness ==
  /\ ParseCall
  /\ ParseInput = Num(MaxDays) /\ inv.now = 1
  /\ ParseResult = Str("iso", 1 + MaxDays * TicksPerDay, 0)

\* month and day name a date of the calendar
IsCalendarDate(month, day) == month \in 1..12 /\ day \in 1..MonthDays[month]

\* midnight UTC of a date of the calendar
MidnightUTC(month, day) == (DaysBeforeMonth(month) + day - 1) * TicksPerDay

\* C14: for a string input parseDeadline returns the same instant for an
\* ISO-8601 date-time, midnight UTC of the named date for a YYYY-MM-DD string,
\* and now + 1 day otherwise; a YYYY-MM-DD string gives midnight UTC of exactly
\* that calendar date or the default, never a different date
C14_StringDeadline ==
  (ParseCall /\ ParseInput.t = "str") =>
    /\ IsTimestamp(ParseResult)
    /\ ParseInput.fmt = "iso" => ParseResult.a = ParseInput.a
    /\ ParseInput.fmt = "date" =>
         IF IsCalendarDate(ParseInput.a, ParseInput.b)
           THEN ParseResult.a = MidnightUTC(ParseInput.a, ParseInput.b)
           ELSE ParseResult.a = inv.now + TicksPerDay
    /\ ParseInput.fmt \in {"text", "empty"} => ParseResult.a = inv.now + TicksPerDay

\* the inputs parseDeadline cannot parse: no input, free text, ""
Unparseable(v) == v = Undefined \/ (v.t = "str" /\ v.fmt \in {"text", "empty"})

\* C15: parseDeadline is total: for every input it returns an ISO-8601 UTC
\* timestamp and never raises; for an absent input or a string that cannot be
\* parsed the result is now + 1 day
C15_ParseDeadlineTotal ==
  ParseCall =>
    /\ handlerOut.k = "returned"
    /\ IsTimestamp(ParseResult)
    /\ Unparseable(ParseInput) => ParseResult.a = inv.now + TicksPerDay

C15_Witness ==
  /\ ParseCall
  /\ ParseInput = Text /\ inv.now = MaxNow
  /\ ParseResult = Str("iso", MaxNow + TicksPerDay, 0)

\* a direct call of wrapApiCall on a promise that was fulfilled
WrapFulfilled == Done /\ inv.layer = "wrap" /\ clientOut.k = "fulfilled"

\* C16 as stated: on fulfilment wrapApiCall returns a result without isError
\* whose content is one text block: the {success:true} JSON for undefined,
\* the pretty-printed JSON of the value for every other value
C16_SuccessIsJson ==
  WrapFulfilled =>
    /\ handlerOut.k = "returned"
    /\ ~handlerOut.v.isError
    /\ Len(handlerOut.v.content) = 1
    /\ BlockText(handlerOut.v.content[1]) =
         JSONText(IF clientOut.v = Undefined THEN SuccessObject ELSE clientOut.v)

\* C16 amended: one text block; the {success:true} JSON for undefined, the
\* pretty-printed JSON for a non-null object or array, String(value) for a
\* primitive or null (a string is not quoted), all without isError; a value
\* JSON.stringify throws on gives an isError result
C16_SuccessIsJsonOrString ==
  WrapFulfilled =>
    /\ handlerOut.k = "returned"
    /\ Len(handlerOut.v.content) = 1
    /\ IF clientOut.v = Circular THEN handlerOut.v.isError
       ELSE /\ ~handlerOut.v.isError
            /\ BlockText(handlerOut.v.content[1]) =
                 (IF clientOut.v = Undefined THEN JSONText(SuccessObject)
                  ELSE IF clientOut.v.t \in {"task", "list", "success"}
                    THEN JSONText(clientOut.v)
                  ELSE StringText(clientOut.v))

C16_Witness ==
  /\ WrapFulfilled
  /\ clientOut.v = Text
  /\ handlerOut.k = "returned" /\ ~handlerOut.v.isError
  /\ BlockText(handlerOut.v.content[1]) = [quoted |-> FALSE, of |-> Text]

\* wrapApiCall has turned a rejection into an error result
WrapRejected ==
  /\ Done /\ inv.layer \in {"wrap", "tool"}
  /\ clientOut.k = "rejected"
  /\ handlerOut.k = "returned"

\* the tokens of the error text that follow the opening " (": the detail
\* string appended inline
AppendedDetails(parts) == {parts[i + 1] : i \in {j \in 1..(Len(parts) - 1) : parts[j] = " ("}}

\* C17: the detail string wrapApiCall appends to the error message is shorter
\* than 150 characters and is not the main error message; a long detail or a
\* duplicate of the message is never appended
C17_DetailShortAndDistinct ==
  WrapRejected =>
    \A d \in AppendedDetails(handlerOut.v.content[1].parts) :
      /\ d \notin LongStrings
      /\ <<d>> # extractErrorInfo(clientOut.v).errorMessage

\* a direct call of a client operation whose request upstream answered with
\* an HTTP error status and a response body
HttpFailure ==
  /\ Done /\ inv.layer = "client"
  /\ Len(replies) = 1 /\ ~replies[1].ok
  /\ replies[1].v.t = "AxiosError" /\ replies[1].v.status # "none"
  /\ replies[1].v.detail # Undefined

\* the response body is a JSON object
HttpFailureWithBody == HttpFailure /\ replies[1].v.detail.t = "obj"

FailureBody == replies[1].v.detail

\* the message of the ReclaimError after the "context: " prefix
NormalizedMessage == SubSeq(clientOut.v.message, 3, Len(clientOut.v.message))

\* C18 as stated: the message of the normalized error is the body's detail if
\* present, else its title, else its message, else the transport error's own
\* message; the status is the HTTP status of the response
C18_BodyFieldPreference ==
  HttpFailureWithBody =>
    /\ clientOut.k = "rejected" /\ clientOut.v.t = "ReclaimError"
    /\ clientOut.v.status = replies[1].v.status
    /\ NormalizedMessage =
         (IF FailureBody.detail # "" THEN <<FailureBody.detail>>
          ELSE IF FailureBody.title # "" THEN <<FailureBody.title>>
          ELSE IF FailureBody.message # "" THEN <<FailureBody.message>>
          ELSE replies[1].v.message)

\* C18 amended: for an object body the message is "title: message" when the
\* body has both, the body's message when it has a message only, and the
\* transport error's own message otherwise (the body's detail, and a title
\* without a message, are not used); for a string body it is the body; the
\* status is the HTTP status of the response
C18_BodyMessageOrTransport ==
  HttpFailure =>
    /\ clientOut.k = "rejected" /\ clientOut.v.t = "ReclaimError"
    /\ clientOut.v.status = replies[1].v.status
    /\ NormalizedMessage =
         (IF FailureBody.t = "bodystr" THEN <<FailureBody.s>>
          ELSE IF FailureBody.message # "" /\ FailureBody.title # ""
            THEN <<FailureBody.title, ": ", FailureBody.message>>
          ELSE IF FailureBody.message # "" THEN <<FailureBody.message>>
          ELSE replies[1].v.message)

C18_Witness ==
  /\ HttpFailureWithBody
  /\ FailureBody = Body("Not Found", "", "no such task")
  /\ replies[1].v.status = "404"
  /\ clientOut.v.status = "404"
  /\ NormalizedMessage = <<"axios message">>

\* a direct call of logWorkForTask with positive minutes
LogWorkCall ==
  inv.layer = "client" /\ inv.op = "logWorkForTask" /\ inv.a.minutes > 0

AloneResult(r) ==
  Dispatch(r.name, HandlerFinish(r.name, r.filter, ClientFinish(r.req, r.reply)))

\* C21: in every interleaving of two tool invocations at their suspension
\* points each invocation gives the transport the result it gives when it
\* runs alone with the same arguments and the same upstream reply; the
\* content array of one is never written by the other
C21_InvocationsIsolated ==
  \A p \in 1..MaxInvocations :
    running[p].pc = "done" => running[p].toolOut = AloneResult(running[p])

\* two list invocations interleaved: the second is answered and pushes its
\* note while the first, answered before, has not resumed yet
C21_Witness ==
  /\ \A p \in 1..2 : running[p].pc = "done" /\ running[p].name = "reclaim_list_tasks"
  /\ ~running[1].toolOut.v.isError /\ ~running[2].toolOut.v.isError
  /\ running[1].result.content > running[2].result.content
  /\ running[1].reply # running[2].reply

\* a direct call of filterActiveTasks with an argument that is not an array
FilterNonArray == Done /\ inv.layer = "filter" /\ inv.params.t # "list"

\* C22: filterActiveTasks called with a non-array argument returns an empty
\* list and does not raise
C22_NonArrayGivesEmpty ==
  FilterNonArray => handlerOut = Returned(ListOf(<<>>))

C22_Witness ==
  /\ FilterNonArray
  /\ inv.params = Null
  /\ handlerOut = Returned(ListOf(<<>>))

\* the tasks the mock API client stores
StoredTasks == {mockTasks[i] : i \in 1..Len(mockTasks)}
\* the stored task with this id, undefined when there is none
StoredTask(taskId) ==
  IF FindIndex(mockTasks, taskId) = 0 THEN Undefined
  ELSE mockTasks[FindIndex(mockTasks, taskId)]

\* C23: in the mock task store, after any sequence of calls, a task that has
\* a finished timestamp has the status ARCHIVED
C23_FinishedOnlyWhenArchived ==
  \A task \in StoredTasks : HasKey(task, "finished") => task.status = "ARCHIVED"

\* C24: in the mock task store, after any sequence of calls, the three time
\* chunk counters of every stored task are non-negative
C24_ChunksNonNegative ==
  \A task \in StoredTasks :
    /\ OrZero(task, "timeChunksRequired") >= 0
    /\ task.timeChunksSpent >= 0
    /\ task.timeChunksRemaining >= 0

\* the task the lifecycle runs on
LifecycleTask == StoredTask(lifecycle.id)

\* C25: through the lifecycle create, prioritize, startTimer, stopTimer,
\* markComplete, markIncomplete on one task the status is NEW, SCHEDULED,
\* IN_PROGRESS, not IN_PROGRESS, ARCHIVED, not ARCHIVED
C25_LifecycleStatuses ==
  /\ lifecycle.stage = 1 => LifecycleTask.status = "NEW"
  /\ lifecycle.stage = 2 => LifecycleTask.status = "SCHEDULED"
  /\ lifecycle.stage = 3 => LifecycleTask.status = "IN_PROGRESS"
  /\ lifecycle.stage = 4 => LifecycleTask.status # "IN_PROGRESS"
  /\ lifecycle.stage = 5 => LifecycleTask.status = "ARCHIVED"
  /\ lifecycle.stage = 6 => LifecycleTask.status # "ARCHIVED"

\* the newest call found its task and returned
CallSucceeded(method) ==
  lastCall.method = method /\ ~lastCall.out.thrown /\ lastCall.before # Undefined
\* the task of the newest call as it is stored now
TaskNow == StoredTask(lastCall.taskId)

\* C26: addTime with a positive multiple of 30 minutes raises
\* timeChunksRequired and timeChunksRemaining by minutes / 30 and leaves
\* timeChunksSpent; logWork raises timeChunksSpent and does not raise
\* timeChunksRemaining; no call lowers timeChunksSpent of a task
C26_TimeChunkSteps ==
  /\ (CallSucceeded("addTimeToTask") /\ lastCall.minutes % 30 = 0) =>
       /\ TaskNow.timeChunksRequired =
            OrZero(lastCall.before, "timeChunksRequired") + lastCall.minutes \div 30
       /\ TaskNow.timeChunksRemaining =
            lastCall.before.timeChunksRemaining + lastCall.minutes \div 30
       /\ TaskNow.timeChunksSpent = lastCall.before.timeChunksSpent
  /\ CallSucceeded("logWorkForTask") =>
       /\ TaskNow.timeChunksSpent > lastCall.before.timeChunksSpent
       /\ TaskNow.timeChunksRemaining <= lastCall.before.timeChunksRemaining
  /\ (lastCall.before # Undefined /\ TaskNow # Undefined) =>
       TaskNow.timeChunksSpent >= lastCall.before.timeChunksSpent

\* the newest call was made on an id deleteTask had removed before
CallOnDeleted == lastCall.gone
NotFound404 ==
  /\ lastCall.out.thrown
  /\ lastCall.out.v.t = "ReclaimError"
  /\ lastCall.out.v.status = "404"
NoDeletedIdStored == \A task \in StoredTasks : task.id \notin deletedIds

\* C27: once deleteTask has removed an id, every later call on that id fails
\* with a 404 ReclaimError, and createTask never hands the id out again
C27_DeletedStaysGone ==
  /\ CallOnDeleted => NotFound404
  /\ NoDeletedIdStored

\* the minutes guard of addTimeToTask and logWorkForTask runs before the
\* task is looked up
MinutesGuardHit ==
  lastCall.method \in {"addTimeToTask", "logWorkForTask"} /\ lastCall.minutes <= 0

\* C27 (amended): once deleteTask has removed an id, every later call on
\* that id fails: addTime and logWork with minutes <= 0 with the plain Error
\* of the minutes guard, every other call with a 404 ReclaimError; createTask
\* never hands the id out again
C27_DeletedStaysGoneOrGuard ==
  /\ CallOnDeleted =>
       IF MinutesGuardHit
         THEN lastCall.out.thrown /\ lastCall.out.v.t = "Error"
         ELSE NotFound404
  /\ NoDeletedIdStored

C27_Witness ==
  /\ FirstTaskId \in deletedIds
  /\ \E task \in StoredTasks : task.id = FirstTaskId + 1
  /\ lastCall.method = "getTask" /\ lastCall.taskId = FirstTaskId
  /\ CallOnDeleted /\ NotFound404

\* C28: logWorkForTask with positive minutes and an end string that cannot
\* be parsed as a date rejects with an "Invalid 'end' date format" error and
\* issues no log-work request
C28_InvalidEndRejected ==
  (LogWorkCall /\ inv.a.end = Text) =>
    /\ requests = <<>>
    /\ Done
    /\ clientOut.k = "rejected"
    /\ "Invalid 'end' date format: " \in Tokens(clientOut.v.message)

\* a reclaim_update_task call whose arguments pass validation and that
\* reaches the API client
UpdateReachesClient ==
  /\ inv.layer = "tool" /\ inv.name = "reclaim_update_task"
  /\ inv.op = "updateTask"

\* C29: every reclaim_update_task call that passes validation and reaches
\* the API client issues a PATCH request; the empty-payload fallback, a GET,
\* is never taken on a path that starts at the tool handler
C29_ToolUpdateAlwaysPatches ==
  UpdateReachesClient =>
    /\ Len(requests) = 1
    /\ requests[1].method = "PATCH" /\ requests[1].op = "updateTask"
    /\ DOMAIN requests[1].body # {}

C29_Witness ==
  /\ UpdateReachesClient /\ Done
  /\ DOMAIN inv.params = {"taskId", "title"}
  /\ Len(requests) = 1 /\ requests[1].method = "PATCH"
  /\ DOMAIN requests[1].body = {"title"}
  /\ replies[1].ok

\* a direct call of createTask or updateTask
TaskDataCall == inv.layer = "client" /\ inv.op \in {"createTask", "updateTask"}

====
